---- MODULE Spec2Model ----
(***************************************************************************)
(* aicommit: the provider dispatch (lib/ai-providers.js and its concise    *)
(* twin), the configuration store (lib/config.js) and the command line     *)
(* driver (bin/aicommit.js, the second half of src/lib/git.js).            *)
(***************************************************************************)
EXTENDS Integers, Sequences, FiniteSets, TLC

(***************************************************************************)
(* Bounds of the model.                                                    *)
(***************************************************************************)
\* number of runs (maximal blocks of one character) in a backend's inner text
MaxRuns == 3
\* number of characters around each limit that the diff lengths cover
Around == 1

(***************************************************************************)
(* Text.  A JavaScript string is a sequence of runs [c, n]: the symbol c   *)
(* repeated n >= 1 times, adjacent runs holding different symbols.  A      *)
(* literal of the source is one symbol.                                    *)
(***************************************************************************)
Run(c, n) == [c |-> c, n |-> n]

Empty == <<>>

Lit(s) == <<Run(s, 1)>>

Rep(c, n) == IF n = 0 THEN Empty ELSE <<Run(c, n)>>

RECURSIVE Length(_)
\* String.prototype.length
Length(t) == IF t = <<>> THEN 0 ELSE t[1].n + Length(Tail(t))

\* the template literal `${s}${t}`
Concat(s, t) ==
  IF s = <<>> THEN t
  ELSE IF t = <<>> THEN s
  ELSE IF s[Len(s)].c = t[1].c
       THEN SubSeq(s, 1, Len(s) - 1)
              \o <<Run(t[1].c, s[Len(s)].n + t[1].n)>>
              \o Tail(t)
       ELSE s \o t

RECURSIVE Substring0(_, _)
\* String.prototype.substring(0, k) for an integer k >= 0
Substring0(t, k) ==
  IF k <= 0 \/ t = <<>> THEN <<>>
  ELSE IF t[1].n >= k THEN <<Run(t[1].c, k)>>
  ELSE <<t[1]>> \o Substring0(Tail(t), k - t[1].n)

\* the characters String.prototype.trim removes
WhiteSpace == {" ", "\t", "\n"}

RECURSIVE TrimStart(_)
TrimStart(t) ==
  IF t = <<>> THEN <<>>
  ELSE IF t[1].c \in WhiteSpace THEN TrimStart(Tail(t))
  ELSE t

RECURSIVE TrimEnd(_)
TrimEnd(t) ==
  IF t = <<>> THEN <<>>
  ELSE IF t[Len(t)].c \in WhiteSpace THEN TrimEnd(SubSeq(t, 1, Len(t) - 1))
  ELSE t

\* a trim that leaves the end alone
TrimStartOnly(t) == TrimStart(t)

\* String.prototype.trim
Trim(t) == TrimEnd(TrimStart(t))

(***************************************************************************)
(* JavaScript values, as far as the program meets them: every value is a   *)
(* record with a tag.                                                      *)
(***************************************************************************)
Undefined == [tag |-> "undefined"]
Null == [tag |-> "null"]
NumV(k) == [tag |-> "number", n |-> k]
\* a function object (an inherited property such as Object.prototype.constructor)
Fun == [tag |-> "function"]
Str(t) == [tag |-> "string", text |-> t]
Bool(b) == [tag |-> "boolean", b |-> b]
Arr(items) == [tag |-> "array", items |-> items]
Obj(fields) == [tag |-> "object", fields |-> fields]
\* an abrupt completion: a thrown Error with this message
Throw(m) == [tag |-> "throw", message |-> m]

IsThrow(v) == v.tag = "throw"
IsString(v) == v.tag = "string"

\* ToBoolean
Truthy(v) ==
  CASE v.tag \in {"undefined", "null"} -> FALSE
    [] v.tag = "string" -> v.text # <<>>
    [] v.tag = "number" -> v.n # 0
    [] v.tag = "boolean" -> v.b
    [] OTHER -> TRUE

\* a || b
Or(a, b) == IF Truthy(a) THEN a ELSE b

\* the message of a TypeError
TypeErrorMsg == Lit("TypeError")

\* v[k], v.k
Get(v, k) ==
  CASE v.tag = "throw" -> v
    [] v.tag \in {"undefined", "null"} -> Throw(TypeErrorMsg)
    [] v.tag = "object" ->
         IF k \in DOMAIN v.fields THEN v.fields[k] ELSE Undefined
    [] v.tag = "array" ->
         IF k = "0" /\ v.items # <<>> THEN v.items[1] ELSE Undefined
    [] v.tag = "string" ->
         IF k = "0" /\ v.text # <<>> THEN Str(Substring0(v.text, 1)) ELSE Undefined
    [] OTHER -> Undefined

\* v?.k
OptGet(v, k) ==
  IF v.tag \in {"undefined", "null"} THEN Undefined ELSE Get(v, k)

\* v.trim()
CallTrim(v) ==
  CASE v.tag = "throw" -> v
    [] v.tag = "string" -> Str(Trim(v.text))
    [] OTHER -> Throw(TypeErrorMsg)

\* String(v), as new Error(v) and template literals apply it
ToStr(v) ==
  CASE v.tag = "string" -> v.text
    [] v.tag = "undefined" -> Lit("undefined")
    [] v.tag = "null" -> Lit("null")
    [] v.tag = "number" -> Lit(ToString(v.n))
    [] v.tag = "boolean" -> Lit(ToString(v.b))
    [] v.tag = "array" -> Lit("[array]")
    [] OTHER -> Lit("[object Object]")

(***************************************************************************)
(* lib/ai-providers.js (thorough template) and its twin (concise           *)
(* template): the pure parts.                                              *)
(***************************************************************************)
DIFF_LIMITS == [claude |-> 100000, openai |-> 80000, gemini |-> 25000]

\* property names every object literal inherits from Object.prototype
InheritedKeys == {"constructor", "toString", "valueOf", "hasOwnProperty"}

\* DIFF_LIMITS[provider]
DiffLimitsAt(provider) ==
  IF provider \in DOMAIN DIFF_LIMITS THEN NumV(DIFF_LIMITS[provider])
  ELSE IF provider \in InheritedKeys THEN Fun
  ELSE Undefined

\* const limit = DIFF_LIMITS[provider] || 50000
LimitOf(provider) == Or(DiffLimitsAt(provider), NumV(50000))

\* ToIntegerOrInfinity of substring's end argument: NaN counts as 0
EndIndex(limit) == IF limit.tag = "number" THEN limit.n ELSE 0

\* a truncation that keeps one character too many
TruncatedDiffOneMore(d, limit) == Substring0(d, EndIndex(limit) + 1)

\* const truncatedDiff = diff.substring(0, limit)
TruncatedDiff(d, limit) == Substring0(d, EndIndex(limit))

\* diff.length > limit: a comparison with NaN is false
Exceeds(d, limit) == limit.tag = "number" /\ Length(d) > limit.n

\* (n / 1024).toFixed(1), in tenths of a kilobyte
KBTenths(n) == (n * 10 + 512) \div 1024

\* the two console.log lines of the truncation warning
Advisory(d, limit, provider) ==
  [kind |-> "advisory", originalKB |-> KBTenths(Length(d)),
   truncatedKB |-> KBTenths(EndIndex(limit)), provider |-> provider]

\* the template of lib/ai-providers.js up to ${diff}
ThoroughHead ==
  << Run("You are an expert developer writing a detailed git commit message. [...]", 1),
     Run("## OUTPUT FORMAT (Conventional Commits): [thorough]", 1),
     Run("## COMMIT TYPES: [...]", 1),
     Run("## CRITICAL RULES: [1-10]", 1),
     Run("## EXAMPLE OF GOOD COMMIT: [...]", 1),
     Run("## GIT DIFF TO ANALYZE:", 1),
     Run("\n", 2) >>

\* the template of lib/ai-providers.js after ${diff}
ThoroughClosing ==
  << Run("\n", 2),
     Run("Generate the commit message now. Be thorough and specific.", 1) >>

\* the template of the concise twin up to ${diff}
ConciseHead ==
  << Run("You are an expert developer writing git commit messages. [...]", 1),
     Run("## IMPORTANT: SCALE MESSAGE SIZE TO CHANGE SIZE [...]", 1),
     Run("## OUTPUT FORMAT (Conventional Commits): [concise]", 1),
     Run("## COMMIT TYPES: [...]", 1),
     Run("## CRITICAL RULES: [1-8]", 1),
     Run("## EXAMPLES: [...]", 1),
     Run("## GIT DIFF TO ANALYZE:", 1),
     Run("\n", 2) >>

\* the template of the concise twin after ${diff}
ConciseClosing ==
  << Run("\n", 2),
     Run("Generate an appropriately sized commit message. Keep it concise.", 1) >>

Variants == {"thorough", "concise"}

TemplateHead(variant) == IF variant = "thorough" THEN ThoroughHead ELSE ConciseHead

TemplateClosing(variant) == IF variant = "thorough" THEN ThoroughClosing ELSE ConciseClosing

\* a prompt that tidies the diff before inserting it
buildPromptTrimmed(variant, d) ==
  Concat(Concat(TemplateHead(variant), Trim(d)), TemplateClosing(variant))

\* buildPrompt(diff) of the module `variant`
buildPrompt(variant, d) == Concat(Concat(TemplateHead(variant), d), TemplateClosing(variant))

Backends == {"claude", "openai", "gemini"}

\* a resolution that prefers the environment
ResolveKeyEnvFirst(cfg, environment, name, envName) ==
  Or(environment[envName], OptGet(Get(cfg, "apiKeys"), name))

\* config.apiKeys?.<name> || process.env.<NAME>_API_KEY
ResolveKey(cfg, environment, name, envName) ==
  Or(OptGet(Get(cfg, "apiKeys"), name), environment[envName])

\* `<Name> API error: ${error.message}`
ApiError(name, message) ==
  Throw(Concat(Lit(name), Concat(Lit(" API error: "), ToStr(message))))

\* an awaited promise: rejected with an Error, or resolved with a value
Rejected(message) == [kind |-> "rejected", message |-> message]
Resolved(value) == [kind |-> "resolved", value |-> value]
\* what fetch resolves with: the status class and the body
Response(ok, body) == [kind |-> "resolved", ok |-> ok, body |-> body]
\* a body that is no JSON
NotJson == [tag |-> "notjson"]

\* the same without the try/catch
ClaudeResultNoCatch(r) ==
  IF r.kind = "rejected" THEN Throw(ToStr(r.message))
  ELSE CallTrim(Get(Get(Get(r.value, "content"), "0"), "text"))

\* message.content[0].text.trim() inside try/catch
ClaudeResult(r) ==
  IF r.kind = "rejected" THEN ApiError("Claude", r.message)
  ELSE LET v == CallTrim(Get(Get(Get(r.value, "content"), "0"), "text"))
       IN IF IsThrow(v) THEN ApiError("Claude", Str(v.message)) ELSE v

\* response.choices[0].message.content.trim() inside try/catch
OpenAIResult(r) ==
  IF r.kind = "rejected" THEN ApiError("OpenAI", r.message)
  ELSE LET v == CallTrim(Get(Get(Get(Get(r.value, "choices"), "0"), "message"), "content"))
       IN IF IsThrow(v) THEN ApiError("OpenAI", Str(v.message)) ELSE v

\* a reading of the body that never looks at the status
GeminiResultNoStatus(r) ==
  IF r.kind = "rejected" THEN ApiError("Gemini", r.message)
  ELSE IF r.body = NotJson THEN ApiError("Gemini", Str(Lit("SyntaxError")))
  ELSE LET v == CallTrim(Get(Get(Get(Get(Get(Get(r.body, "candidates"), "0"),
                                       "content"), "parts"), "0"), "text"))
       IN IF IsThrow(v) THEN ApiError("Gemini", Str(v.message)) ELSE v

\* await response.json(), the !response.ok check and
\* data.candidates[0].content.parts[0].text.trim(), inside try/catch
GeminiResult(r) ==
  IF r.kind = "rejected" THEN ApiError("Gemini", r.message)
  ELSE IF r.body = NotJson THEN ApiError("Gemini", Str(Lit("SyntaxError")))
  ELSE LET data == r.body
           failure == Or(OptGet(Get(data, "error"), "message"),
                         Str(Lit("Gemini API request failed")))
           v == CallTrim(Get(Get(Get(Get(Get(Get(data, "candidates"), "0"),
                                       "content"), "parts"), "0"), "text"))
       IN IF ~r.ok
          THEN IF IsThrow(failure) THEN ApiError("Gemini", Str(failure.message))
               ELSE ApiError("Gemini", Str(ToStr(failure)))
          ELSE IF IsThrow(v) THEN ApiError("Gemini", Str(v.message)) ELSE v

(***************************************************************************)
(* The state.                                                              *)
(***************************************************************************)
VARIABLES
  variant,        \* which dispatch module is loaded: thorough or concise
  diff,           \* generateCommitMessage's argument diff
  provider,       \* generateCommitMessage's argument provider
  config,         \* generateCommitMessage's argument config
  env,            \* process.env
  pc,             \* where the call of generateCommitMessage stands
  limit,          \* the local limit
  truncatedDiff,  \* the local truncatedDiff, the argument of generateWith*
  apiKey,         \* the local apiKey of generateWith*
  prompt,         \* the local prompt of generateWith*
  request,        \* the last request handed to the network layer
  netCalls,       \* number of requests handed to the network layer
  response,       \* what the awaited request settled with
  outcome,        \* how the promise of generateCommitMessage settled
  console,        \* the lines written to the console, in order
  options,        \* program.opts()
  file,           \* the content of ~/.aicommit/config.json
  mainPc,         \* where main() stands
  exitStatus,     \* the status the process ended with
  commits,        \* the git commit commands executed, in order
  saves,          \* number of writes of the settings file
  calls           \* number of calls of generateCommitMessage made by main()

dispatchVars ==
  << diff, provider, config, pc, limit, truncatedDiff, apiKey, prompt,
     request, netCalls, response, outcome >>

cliVars == << options, file, mainPc, exitStatus, commits, saves, calls >>

vars == << variant, env, console, dispatchVars, cliVars >>

\* a local that holds nothing yet
Unset == [tag |-> "unset"]
\* a text local that holds nothing yet: no text has a run of no characters
NoText == << Run("", 0) >>

NoOutcome == [kind |-> "pending"]
Returned(v) == [kind |-> "returned", value |-> v]
Raised(m) == [kind |-> "raised", message |-> m]

\* the settled promise of an async function whose body completed with v
Settle(v) == IF IsThrow(v) THEN Raised(v.message) ELSE Returned(v.text)

(***************************************************************************)
(* generateCommitMessage and generateWith*, one action per stretch of      *)
(* synchronous code.                                                       *)
(***************************************************************************)
\* lines 19-28: the limit, the truncation and its warning
Bound ==
  /\ pc = "bound"
  /\ limit' = LimitOf(provider)
  /\ truncatedDiff' = TruncatedDiff(diff, LimitOf(provider))
  /\ console' = IF Exceeds(diff, LimitOf(provider))
                THEN Append(console, Advisory(diff, LimitOf(provider), provider))
                ELSE console
  /\ pc' = "switch"
  /\ UNCHANGED << variant, env, diff, provider, config, apiKey, prompt,
                  request, netCalls, response, outcome, cliVars >>

\* a switch whose default branch falls back to Claude
SwitchDefaultClaude ==
  /\ pc = "switch"
  /\ pc' = IF provider \in Backends THEN provider ELSE "claude"
  /\ UNCHANGED << variant, env, console, diff, provider, config, limit,
                  truncatedDiff, apiKey, prompt, request, netCalls, response,
                  outcome, cliVars >>

\* lines 30-39: switch (provider)
Switch ==
  /\ pc = "switch"
  /\ IF provider \in Backends
     THEN /\ pc' = provider
          /\ outcome' = outcome
     ELSE /\ pc' = "done"
          /\ outcome' = Raised(Concat(Lit("Unknown provider: "), Lit(provider)))
  /\ UNCHANGED << variant, env, console, diff, provider, config, limit,
                  truncatedDiff, apiKey, prompt, request, netCalls, response,
                  cliVars >>

\* what each backend's request carries
ClaudeRequest(k, p) ==
  [backend |-> "claude", apiKey |-> k, model |-> "claude-sonnet-4-20250514",
   max_tokens |-> 1024, temperature |-> "default", system |-> FALSE,
   prompt |-> p]
OpenAIRequest(k, p) ==
  [backend |-> "openai", apiKey |-> k, model |-> "gpt-4-turbo-preview",
   max_tokens |-> 1024, temperature |-> "0.3", system |-> TRUE,
   prompt |-> p]
GeminiRequest(k, p) ==
  [backend |-> "gemini", apiKey |-> k, model |-> "gemini-pro",
   max_tokens |-> 1024, temperature |-> "0.3", system |-> FALSE,
   prompt |-> p]

\* a key check placed after the prompt has been built
KeyNotFoundAfterPrompt(k, name) ==
  /\ ~Truthy(k)
  /\ apiKey' = k
  /\ prompt' = buildPrompt(variant, truncatedDiff)
  /\ outcome' = Raised(Concat(Lit(name), Lit(" API key not found")))
  /\ pc' = "done"
  /\ UNCHANGED << request, netCalls >>

\* if (!apiKey) throw new Error('<Name> API key not found')
KeyNotFound(k, name) ==
  /\ ~Truthy(k)
  /\ apiKey' = k
  /\ outcome' = Raised(Concat(Lit(name), Lit(" API key not found")))
  /\ pc' = "done"
  /\ UNCHANGED << prompt, request, netCalls >>

\* const prompt = buildPrompt(diff), then the request goes out and the
\* function waits for it
Transmit(k, req, waiting) ==
  /\ Truthy(k)
  /\ apiKey' = k
  /\ prompt' = buildPrompt(variant, truncatedDiff)
  /\ request' = req
  /\ netCalls' = netCalls + 1
  /\ pc' = waiting
  /\ UNCHANGED outcome

\* generateWithClaude, lines 45-63: up to the await
generateWithClaude ==
  /\ pc = "claude"
  /\ LET k == ResolveKey(config, env, "anthropic", "ANTHROPIC_API_KEY")
     IN \/ KeyNotFound(k, "Anthropic")
        \/ Transmit(k, ClaudeRequest(ToStr(k), buildPrompt(variant, truncatedDiff)),
                    "claude:await")
  /\ UNCHANGED << variant, env, console, diff, provider, config, limit,
                  truncatedDiff, response, cliVars >>

\* generateWithOpenAI, lines 74-100: up to the await
generateWithOpenAI ==
  /\ pc = "openai"
  /\ LET k == ResolveKey(config, env, "openai", "OPENAI_API_KEY")
     IN \/ KeyNotFound(k, "OpenAI")
        \/ Transmit(k, OpenAIRequest(ToStr(k), buildPrompt(variant, truncatedDiff)),
                    "openai:await")
  /\ UNCHANGED << variant, env, console, diff, provider, config, limit,
                  truncatedDiff, response, cliVars >>

\* generateWithGemini, lines 111-140: up to the await
generateWithGemini ==
  /\ pc = "gemini"
  /\ LET k == ResolveKey(config, env, "gemini", "GEMINI_API_KEY")
     IN \/ KeyNotFound(k, "Gemini")
        \/ Transmit(k, GeminiRequest(ToStr(k), buildPrompt(variant, truncatedDiff)),
                    "gemini:await")
  /\ UNCHANGED << variant, env, console, diff, provider, config, limit,
                  truncatedDiff, response, cliVars >>

(***************************************************************************)
(* What the network layer can answer.                                      *)
(***************************************************************************)
Chars == {"a", " ", "\n"}

\* the texts of at most MaxRuns runs, one character each
InnerTexts ==
  { [i \in DOMAIN f |-> Run(f[i], 1)] :
      f \in { g \in UNION { [1..k -> Chars] : k \in 0..MaxRuns } :
                \A i \in 1..(Len(g) - 1) : g[i] # g[i + 1] } }

\* what can stand where the text is expected; Undefined is a missing field
InnerValues == { Str(t) : t \in InnerTexts } \cup { Undefined, Null, NumV(7) }

NoFields == [k \in {} |-> Undefined]

\* the Error an SDK call or fetch rejects with
Failures ==
  { Rejected(Str(Lit("Connection error."))),
    Rejected(Str(Lit("401 invalid api key"))),
    Rejected(Undefined) }

ClaudeEnvelope(v) == Obj([content |-> Arr(<< Obj([type |-> Str(Lit("text")), text |-> v]) >>)])

OpenAIEnvelope(v) ==
  Obj([choices |-> Arr(<< Obj([message |-> Obj([role |-> Str(Lit("assistant")),
                                                 content |-> v])]) >>)])

GeminiCandidates(v) ==
  Arr(<< Obj([content |-> Obj([parts |-> Arr(<< Obj([text |-> v]) >>)])]) >>)

ClaudeReplies ==
  Failures
    \cup { Resolved(ClaudeEnvelope(v)) : v \in InnerValues }
    \cup { Resolved(Obj(NoFields)),
           Resolved(Obj([content |-> Arr(<<>>)])),
           Resolved(Obj([content |-> Null])),
           Resolved(Obj([content |-> Str(Lit("text"))])),
           Resolved(Null) }

OpenAIReplies ==
  Failures
    \cup { Resolved(OpenAIEnvelope(v)) : v \in InnerValues }
    \cup { Resolved(Obj(NoFields)),
           Resolved(Obj([choices |-> Arr(<<>>)])),
           Resolved(Obj([choices |-> Arr(<< Obj(NoFields) >>)])),
           Resolved(Obj([choices |-> Null])),
           Resolved(Null) }

\* the error objects of a Gemini body
GeminiErrors ==
  { Obj([message |-> Str(Lit("API key not valid"))]),
    Obj([message |-> Str(Empty)]),
    Obj([code |-> NumV(500)]),
    Null }

GeminiBodies ==
  { Obj([candidates |-> GeminiCandidates(v)]) : v \in InnerValues }
    \cup { Obj([error |-> e]) : e \in GeminiErrors }
    \cup { Obj([error |-> e, candidates |-> GeminiCandidates(Str(Lit("feat: x")))]) :
             e \in GeminiErrors }
    \cup { Obj(NoFields),
           Obj([candidates |-> Arr(<<>>)]),
           Obj([candidates |-> Arr(<< Obj([finishReason |-> Str(Lit("SAFETY"))]) >>)]),
           Null,
           NotJson }

GeminiReplies ==
  Failures \cup { Response(ok, body) : ok \in BOOLEAN, body \in GeminiBodies }

\* a settling that sends the request again after a failure
claudeSettlesRetry ==
  /\ pc = "claude:await"
  /\ \E r \in ClaudeReplies :
       /\ response' = r
       /\ IF r.kind = "rejected" /\ netCalls < 2
          THEN /\ netCalls' = netCalls + 1
               /\ pc' = pc
               /\ outcome' = outcome
          ELSE /\ netCalls' = netCalls
               /\ pc' = "done"
               /\ outcome' = Settle(ClaudeResult(r))
  /\ UNCHANGED << variant, env, console, diff, provider, config, limit,
                  truncatedDiff, apiKey, prompt, request, cliVars >>

\* lines 57-68: the awaited messages.create settles and the function ends
claudeSettles ==
  /\ pc = "claude:await"
  /\ \E r \in ClaudeReplies :
       /\ response' = r
       /\ outcome' = Settle(ClaudeResult(r))
  /\ pc' = "done"
  /\ UNCHANGED << variant, env, console, diff, provider, config, limit,
                  truncatedDiff, apiKey, prompt, request, netCalls, cliVars >>

\* lines 86-105: the awaited chat.completions.create settles
openaiSettles ==
  /\ pc = "openai:await"
  /\ \E r \in OpenAIReplies :
       /\ response' = r
       /\ outcome' = Settle(OpenAIResult(r))
  /\ pc' = "done"
  /\ UNCHANGED << variant, env, console, diff, provider, config, limit,
                  truncatedDiff, apiKey, prompt, request, netCalls, cliVars >>

\* lines 121-151: the awaited fetch settles, the body is read
geminiSettles ==
  /\ pc = "gemini:await"
  /\ \E r \in GeminiReplies :
       /\ response' = r
       /\ outcome' = Settle(GeminiResult(r))
  /\ pc' = "done"
  /\ UNCHANGED << variant, env, console, diff, provider, config, limit,
                  truncatedDiff, apiKey, prompt, request, netCalls, cliVars >>

\* generateCommitMessage, from the call to the settled promise
Dispatch ==
  \/ Bound
  \/ Switch
  \/ generateWithClaude
  \/ generateWithOpenAI
  \/ generateWithGemini
  \/ claudeSettles
  \/ openaiSettles
  \/ geminiSettles

(***************************************************************************)
(* The inputs of a call of generateCommitMessage by a library user.        *)
(***************************************************************************)
Limits == { DIFF_LIMITS[b] : b \in Backends } \cup { 50000 }

DiffLengths ==
  { 0, 1, 3 } \cup { l + d : l \in Limits, d \in (0 - Around)..Around }

\* a diff of n characters: '+' lines and a last character that differs
DiffOf(n) == IF n = 0 THEN Empty ELSE Concat(Rep("+", n - 1), Lit("-"))

Diffs == { DiffOf(n) : n \in DiffLengths } \cup { << Run("\n", 2), Run("+", 2) >> }

Providers == Backends \cup { "mistral", "constructor" }

ConfigKeys ==
  [anthropic |-> Str(Lit("sk-ant-config")), openai |-> Str(Lit("sk-openai-config")),
   gemini |-> Str(Lit("gemini-config"))]

EnvKeys ==
  [ANTHROPIC_API_KEY |-> Str(Lit("sk-ant-env")),
   OPENAI_API_KEY |-> Str(Lit("sk-openai-env")),
   GEMINI_API_KEY |-> Str(Lit("gemini-env"))]

\* config.apiKeys: every key set, every key empty, no key, or one key set
ApiKeysChoices ==
  { Obj(ConfigKeys),
    Obj([k \in DOMAIN ConfigKeys |-> Str(Empty)]),
    Obj(NoFields) }
    \cup { Obj([k \in DOMAIN ConfigKeys |-> IF k = one THEN ConfigKeys[k] ELSE Str(Empty)]) :
             one \in DOMAIN ConfigKeys }

ConfigOf(defaultProvider, apiKeys, autoCommit) ==
  Obj([defaultProvider |-> defaultProvider, apiKeys |-> apiKeys,
       autoCommit |-> autoCommit])

Configs ==
  { ConfigOf(Str(Lit("claude")), k, Bool(FALSE)) : k \in ApiKeysChoices }
    \cup { Obj([defaultProvider |-> Str(Lit("claude"))]) }

\* process.env: every variable set, none, every one empty, or one set
Envs ==
  { EnvKeys,
    [k \in DOMAIN EnvKeys |-> Undefined],
    [k \in DOMAIN EnvKeys |-> Str(Empty)] }
    \cup { [k \in DOMAIN EnvKeys |-> IF k = one THEN EnvKeys[k] ELSE Undefined] :
             one \in DOMAIN EnvKeys }

NoOptions == [tag |-> "none"]

\* a fresh call: nothing computed, nothing sent, nothing printed
Fresh ==
  /\ pc = "bound"
  /\ limit = Unset
  /\ truncatedDiff = NoText
  /\ apiKey = Unset
  /\ prompt = NoText
  /\ request = Unset
  /\ response = Unset
  /\ netCalls = 0
  /\ outcome = NoOutcome

\* a program calls generateCommitMessage(diff, provider, config)
Init ==
  /\ variant \in Variants
  /\ diff \in Diffs
  /\ provider \in Providers
  /\ config \in Configs
  /\ env \in Envs
  /\ Fresh
  /\ console = <<>>
  /\ options = NoOptions
  /\ file = Unset
  /\ mainPc = "none"
  /\ exitStatus = -1
  /\ commits = <<>>
  /\ saves = 0
  /\ calls = 0

Next == Dispatch

Spec == Init /\ [][Next]_vars

(***************************************************************************)
(* lib/config.js.                                                          *)
(***************************************************************************)
\* no file at getConfigPath()
Absent == [tag |-> "absent"]

\* the default config of loadConfig, lines 36-44
DefaultConfig ==
  ConfigOf(Str(Lit("claude")),
           Obj([anthropic |-> Str(Empty), openai |-> Str(Empty), gemini |-> Str(Empty)]),
           Bool(FALSE))

\* loadConfig, lines 23-45: the parsed file, or the defaults when the file
\* is missing or cannot be parsed
loadConfig(f) == IF f = Absent \/ f = NotJson THEN DefaultConfig ELSE f

\* JSON.parse(JSON.stringify(v)) of a config: properties holding undefined
\* are dropped, in the object and in its apiKeys
Stringify(v) ==
  IF v.tag # "object" THEN v
  ELSE Obj([k \in { j \in DOMAIN v.fields : v.fields[j] # Undefined } |->
             IF v.fields[k].tag = "object"
             THEN Obj([m \in { j \in DOMAIN v.fields[k].fields :
                                 v.fields[k].fields[j] # Undefined } |->
                        v.fields[k].fields[m]])
             ELSE v.fields[k]])

\* saveConfig, lines 50-63, when the write fails
SaveFailed == Lit("Failed to save config: EACCES")

\* String.prototype.toUpperCase on the key names
ToUpperCase == [anthropic |-> "ANTHROPIC", openai |-> "OPENAI", gemini |-> "GEMINI"]

\* keyMap of getApiKey and apiKeyMap of main
KeyMap == [claude |-> "anthropic", openai |-> "openai", gemini |-> "gemini"]

\* getApiKey, lines 68-81
getApiKey(p, cfg, environment) ==
  Or(Or(OptGet(Get(cfg, "apiKeys"), KeyMap[p]),
        environment[ToUpperCase[KeyMap[p]] \o "_API_KEY"]),
     Null)

(***************************************************************************)
(* lib/git.js.                                                             *)
(***************************************************************************)
\* execSync threw
ExecFailed == [tag |-> "throw", message |-> Lit("Command failed")]

\* getGitDiff, lines 6-24, on what git printed
getGitDiff(out) == IF IsThrow(out) THEN Null ELSE Or(Str(Trim(out.text)), Null)

RECURSIVE EscapeRun(_)
\* n double quotes, each with a backslash before it
EscapeRun(n) == IF n = 0 THEN <<>> ELSE << Run("\\", 1), Run("\"", 1) >> \o EscapeRun(n - 1)

RECURSIVE EscapeQuotes(_)
\* message.replace(/"/g, '\\"'), line 60
EscapeQuotes(t) ==
  IF t = <<>> THEN <<>>
  ELSE IF t[1].c = "\"" THEN Concat(EscapeRun(t[1].n), EscapeQuotes(Tail(t)))
  ELSE Concat(<< t[1] >>, EscapeQuotes(Tail(t)))

\* createCommit, lines 57-68: the command it runs
CommitM(message, ok) ==
  [command |-> "git commit -m", message |-> EscapeQuotes(message), ok |-> ok]

\* git commit -t <tempFile>, lines 317-327 and 356-365
CommitT(message, ok) ==
  [command |-> "git commit -t", message |-> message, ok |-> ok]

(***************************************************************************)
(* bin/aicommit.js (src/lib/git.js from line 107).  main's locals config,  *)
(* provider and diff are the arguments it hands to generateCommitMessage,  *)
(* so they live in the same variables.                                     *)
(***************************************************************************)
Name(s) == Str(Lit(s))

\* the name a provider value spells
NameOf(v) == IF v.text = <<>> THEN "" ELSE v.text[1].c

ValidProviders == {"claude", "openai", "gemini"}

\* process.exit(status), or main returning with status 0
Exit(status) ==
  /\ mainPc' = "exited"
  /\ exitStatus' = status

\* a catch that reports the error and ends the run as a success
CatchExitZero(message) ==
  /\ console' = Append(console, [kind |-> "error", message |-> message])
  /\ Exit(0)

\* the catch of main, lines 390-393
Catch(message) ==
  /\ console' = Append(console, [kind |-> "error", message |-> message])
  /\ Exit(1)

\* setup, lines 139-194, with the answers of the user.  A question whose
\* `when` is false is not asked and leaves no answer.
Asked(cfg, answers, p, key) ==
  NameOf(answers.defaultProvider) = p \/ Truthy(OptGet(Get(cfg, "apiKeys"), key))

\* a new config made of the answers alone
NewConfigAnswersOnly(cfg, answers) ==
  ConfigOf(answers.defaultProvider,
           Obj([anthropic |-> Or(answers.anthropicKey, Str(Empty)),
                openai |-> Or(answers.openaiKey, Str(Empty)),
                gemini |-> Or(answers.geminiKey, Str(Empty))]),
           answers.autoCommit)

\* newConfig of setup, lines 181-189
NewConfig(cfg, answers) ==
  ConfigOf(answers.defaultProvider,
           Obj([anthropic |-> Or(Or(answers.anthropicKey,
                                    OptGet(Get(cfg, "apiKeys"), "anthropic")), Str(Empty)),
                openai |-> Or(Or(answers.openaiKey,
                                 OptGet(Get(cfg, "apiKeys"), "openai")), Str(Empty)),
                gemini |-> Or(Or(answers.geminiKey,
                                 OptGet(Get(cfg, "apiKeys"), "gemini")), Str(Empty))]),
           answers.autoCommit)

\* what the user can type at a key question
KeyAnswers == { Str(Empty), Str(Lit("typed-key")) }

\* a key question's answers: typed text, or the stored key it offers as default
KeyChoices(cfg, key) ==
  KeyAnswers \cup { Undefined }
    \cup { Or(OptGet(Get(cfg, "apiKeys"), key), Str(Empty)) }

\* the answers inquirer can deliver for the loaded config
Answers(cfg) ==
  { a \in [defaultProvider : { Name(p) : p \in ValidProviders },
           anthropicKey : KeyChoices(cfg, "anthropic"),
           openaiKey : KeyChoices(cfg, "openai"),
           geminiKey : KeyChoices(cfg, "gemini"),
           autoCommit : { Bool(TRUE), Bool(FALSE) }] :
      /\ (a.anthropicKey = Undefined) = ~Asked(cfg, a, "claude", "anthropic")
      /\ (a.openaiKey = Undefined) = ~Asked(cfg, a, "openai", "openai")
      /\ (a.geminiKey = Undefined) = ~Asked(cfg, a, "gemini", "gemini") }

\* saveConfig(c) as main sees it: the file is written, or the write throws
\* and main's catch ends the run
Save(c) ==
  \/ /\ file' = Stringify(c)
     /\ saves' = saves + 1
     /\ console' = Append(console, [kind |-> "saved"])
     /\ Exit(0)
  \/ /\ Catch(SaveFailed)
     /\ UNCHANGED << file, saves >>

\* main with --setup, lines 227-230 and setup()
setup ==
  /\ mainPc = "start"
  /\ options.setup
  /\ \E a \in Answers(loadConfig(file)) : Save(NewConfig(loadConfig(file), a))
  /\ UNCHANGED << variant, env, dispatchVars, options, commits, calls >>

\* main with --config, lines 233-236 and showConfig()
showConfig ==
  /\ mainPc = "start"
  /\ ~options.setup
  /\ options.config
  /\ console' = Append(console, [kind |-> "config", shown |-> loadConfig(file)])
  /\ Exit(0)
  /\ UNCHANGED << variant, env, dispatchVars, options, file, commits, saves, calls >>

\* a setProvider that writes a fresh config around the provider
setProviderFresh ==
  /\ mainPc = "start"
  /\ ~options.setup
  /\ ~options.config
  /\ Truthy(options.setProvider)
  /\ IF NameOf(options.setProvider) \notin ValidProviders
     THEN /\ console' = Append(console, [kind |-> "unknown provider",
                                         provider |-> options.setProvider])
          /\ Exit(1)
          /\ UNCHANGED << file, saves >>
     ELSE Save(ConfigOf(options.setProvider, Get(DefaultConfig, "apiKeys"), Bool(FALSE)))
  /\ UNCHANGED << variant, env, dispatchVars, options, commits, calls >>

\* main with --set-provider, lines 239-242 and setProvider()
setProvider ==
  /\ mainPc = "start"
  /\ ~options.setup
  /\ ~options.config
  /\ Truthy(options.setProvider)
  /\ IF NameOf(options.setProvider) \notin ValidProviders
     THEN /\ console' = Append(console, [kind |-> "unknown provider",
                                         provider |-> options.setProvider])
          /\ Exit(1)
          /\ UNCHANGED << file, saves >>
     ELSE Save(Obj([k \in DOMAIN loadConfig(file).fields \cup {"defaultProvider"} |->
                     IF k = "defaultProvider" THEN options.setProvider
                     ELSE loadConfig(file).fields[k]]))
  /\ UNCHANGED << variant, env, dispatchVars, options, commits, calls >>

\* a validation that looks for the key in the config only
mainValidateConfigOnly ==
  /\ mainPc = "start"
  /\ ~options.setup
  /\ ~options.config
  /\ ~Truthy(options.setProvider)
  /\ LET cfg == loadConfig(file)
         p == Or(Or(options.provider, Get(cfg, "defaultProvider")), Name("claude"))
     IN /\ config' = cfg
        /\ provider' = NameOf(p)
        /\ IF NameOf(p) \notin ValidProviders
           THEN /\ console' = Append(console, [kind |-> "unknown provider", provider |-> p])
                /\ Exit(1)
           ELSE IF ~Truthy(OptGet(Get(cfg, "apiKeys"), KeyMap[NameOf(p)]))
           THEN /\ console' = Append(console, [kind |-> "key not configured", provider |-> p])
                /\ Exit(1)
           ELSE /\ console' = Append(console, [kind |-> "banner", provider |-> p])
                /\ mainPc' = "diff"
                /\ UNCHANGED exitStatus
  /\ UNCHANGED << variant, env, diff, pc, limit, truncatedDiff, apiKey, prompt,
                  request, netCalls, response, outcome, options, file, commits,
                  saves, calls >>

\* main, lines 245-268: the config, the provider and the two checks
mainValidate ==
  /\ mainPc = "start"
  /\ ~options.setup
  /\ ~options.config
  /\ ~Truthy(options.setProvider)
  /\ LET cfg == loadConfig(file)
         p == Or(Or(options.provider, Get(cfg, "defaultProvider")), Name("claude"))
     IN /\ config' = cfg
        /\ provider' = NameOf(p)
        /\ IF NameOf(p) \notin ValidProviders
           THEN /\ console' = Append(console, [kind |-> "unknown provider", provider |-> p])
                /\ Exit(1)
           ELSE IF /\ ~Truthy(OptGet(Get(cfg, "apiKeys"), KeyMap[NameOf(p)]))
                   /\ ~Truthy(env[ToUpperCase[KeyMap[NameOf(p)]] \o "_API_KEY"])
           THEN /\ console' = Append(console, [kind |-> "key not configured", provider |-> p])
                /\ Exit(1)
           ELSE /\ console' = Append(console, [kind |-> "banner", provider |-> p])
                /\ mainPc' = "diff"
                /\ UNCHANGED exitStatus
  /\ UNCHANGED << variant, env, diff, pc, limit, truncatedDiff, apiKey, prompt,
                  request, netCalls, response, outcome, options, file, commits,
                  saves, calls >>

\* what git diff prints: nothing, blank lines, or a diff and a newline
GitOutputs ==
  { ExecFailed, Str(Empty), Str(Rep("\n", 1)) }
    \cup { Str(Concat(DiffOf(n), Rep("\n", 1))) :
             n \in { 3, DIFF_LIMITS.gemini + Around, DIFF_LIMITS.claude + Around } }

\* main, lines 281-297: the diff is read and generateCommitMessage is called
mainReadDiff ==
  /\ mainPc = "diff"
  /\ \E out \in GitOutputs :
       IF ~Truthy(getGitDiff(out))
       THEN /\ console' = Append(console, [kind |-> "no changes"])
            /\ Exit(1)
            /\ UNCHANGED << diff, pc, calls >>
       ELSE /\ diff' = getGitDiff(out).text
            /\ pc' = "bound"
            /\ calls' = calls + 1
            /\ mainPc' = "await"
            /\ UNCHANGED << console, exitStatus >>
  /\ UNCHANGED << variant, env, provider, config, limit, truncatedDiff, apiKey,
                  prompt, request, netCalls, response, outcome, options, file,
                  commits, saves >>

\* a resumption that shows and offers whatever message came back
mainResumeAnyMessage ==
  /\ mainPc = "await"
  /\ pc = "done"
  /\ pc' = "idle"
  /\ \/ /\ outcome.kind = "raised"
        /\ Catch(outcome.message)
        /\ UNCHANGED commits
     \/ /\ outcome.kind = "returned"
        /\ console' = Append(console, [kind |-> "message", message |-> outcome.value])
        /\ IF options.editor
           THEN /\ \E ok \in BOOLEAN : commits' = Append(commits, CommitT(outcome.value, ok))
                /\ Exit(0)
           ELSE /\ mainPc' = "ask"
                /\ UNCHANGED << commits, exitStatus >>
  /\ UNCHANGED << variant, env, diff, provider, config, limit, truncatedDiff,
                  apiKey, prompt, request, netCalls, response, outcome, options,
                  file, saves, calls >>

\* a resumption that commits at once when autoCommit is stored
mainResumeAutoCommit ==
  /\ mainPc = "await"
  /\ pc = "done"
  /\ pc' = "idle"
  /\ \/ /\ outcome.kind = "raised"
        /\ Catch(outcome.message)
        /\ UNCHANGED commits
     \/ /\ outcome.kind = "returned"
        /\ outcome.value = <<>>
        /\ console' = Append(console, [kind |-> "generation failed"])
        /\ Exit(1)
        /\ UNCHANGED commits
     \/ /\ outcome.kind = "returned"
        /\ outcome.value # <<>>
        /\ console' = Append(console, [kind |-> "message", message |-> outcome.value])
        /\ IF options.editor
           THEN /\ \E ok \in BOOLEAN : commits' = Append(commits, CommitT(outcome.value, ok))
                /\ Exit(0)
           ELSE IF Truthy(Get(config, "autoCommit"))
           THEN /\ \E ok \in BOOLEAN : commits' = Append(commits, CommitM(outcome.value, ok))
                /\ Exit(0)
           ELSE /\ mainPc' = "ask"
                /\ UNCHANGED << commits, exitStatus >>
  /\ UNCHANGED << variant, env, diff, provider, config, limit, truncatedDiff,
                  apiKey, prompt, request, netCalls, response, outcome, options,
                  file, saves, calls >>

\* main, lines 297-327: the promise settled.  A raised error goes to the
\* catch; an empty message ends the run; otherwise the message is shown and
\* with --editor the commit editor opens
mainResume ==
  /\ mainPc = "await"
  /\ pc = "done"
  /\ pc' = "idle"
  /\ \/ /\ outcome.kind = "raised"
        /\ Catch(outcome.message)
        /\ UNCHANGED commits
     \/ /\ outcome.kind = "returned"
        /\ outcome.value = <<>>
        /\ console' = Append(console, [kind |-> "generation failed"])
        /\ Exit(1)
        /\ UNCHANGED commits
     \/ /\ outcome.kind = "returned"
        /\ outcome.value # <<>>
        /\ console' = Append(console, [kind |-> "message", message |-> outcome.value])
        /\ IF options.editor
           THEN /\ \E ok \in BOOLEAN : commits' = Append(commits, CommitT(outcome.value, ok))
                /\ Exit(0)
           ELSE /\ mainPc' = "ask"
                /\ UNCHANGED << commits, exitStatus >>
  /\ UNCHANGED << variant, env, diff, provider, config, limit, truncatedDiff,
                  apiKey, prompt, request, netCalls, response, outcome, options,
                  file, saves, calls >>

Actions == {"commit", "edit", "copy", "cancel"}

\* main, lines 330-387: the user picks what to do with the message
mainAction ==
  /\ mainPc = "ask"
  /\ \E action \in Actions, ok \in BOOLEAN :
       CASE action = "commit" ->
              /\ commits' = Append(commits, CommitM(outcome.value, ok))
              /\ console' = Append(console, [kind |-> IF ok THEN "committed" ELSE "commit failed"])
              /\ Exit(IF ok THEN 0 ELSE 1)
         [] action = "edit" ->
              /\ commits' = Append(commits, CommitT(outcome.value, ok))
              /\ console' = Append(console, [kind |-> IF ok THEN "committed" ELSE "commit cancelled"])
              /\ Exit(0)
         [] action = "copy" ->
              /\ console' = Append(console, [kind |-> IF ok THEN "copied" ELSE "not copied"])
              /\ Exit(0)
              /\ UNCHANGED commits
         [] action = "cancel" ->
              /\ console' = Append(console, [kind |-> "cancelled"])
              /\ Exit(0)
              /\ UNCHANGED commits
  /\ UNCHANGED << variant, env, dispatchVars, options, file, saves, calls >>

Main ==
  \/ setup
  \/ showConfig
  \/ setProvider
  \/ mainValidate
  \/ mainReadDiff
  \/ mainResume
  \/ mainAction

(***************************************************************************)
(* A run of the command line program.                                      *)
(***************************************************************************)
Opts(s, c, sp, p, e, b) ==
  [setup |-> s, config |-> c, setProvider |-> sp, provider |-> p, editor |-> e,
   branch |-> b]

\* the argument of --provider and --set-provider, when given
ProviderArgs == { Name(p) : p \in ValidProviders \cup { "mistral" } }

OptionSets ==
  { Opts(FALSE, FALSE, Undefined, p, e, Undefined) :
      p \in ProviderArgs \cup { Undefined }, e \in BOOLEAN }
    \cup { Opts(FALSE, FALSE, Undefined, Undefined, FALSE, Name("main")) }
    \cup { Opts(FALSE, FALSE, sp, p, FALSE, Undefined) :
             sp \in ProviderArgs, p \in { Undefined, Name("gemini") } }
    \cup { Opts(TRUE, c, sp, Undefined, FALSE, Undefined) :
             c \in BOOLEAN, sp \in { Undefined, Name("openai") } }
    \cup { Opts(FALSE, TRUE, sp, Undefined, FALSE, Undefined) :
             sp \in { Undefined, Name("openai") } }

\* a settings file that holds a JSON object: each property present or not
FileOf(dp, ak, ac) ==
  LET all == [defaultProvider |-> dp, apiKeys |-> ak, autoCommit |-> ac]
  IN Obj([k \in { j \in DOMAIN all : all[j] # Undefined } |-> all[k]])

Files ==
  { Absent, NotJson }
    \cup { FileOf(dp, ak, Bool(FALSE)) :
             dp \in { Undefined, Name("claude"), Name("gemini"), Name("mistral") },
             ak \in { Undefined, Obj(ConfigKeys),
                      Obj([k \in DOMAIN ConfigKeys |-> Str(Empty)]),
                      Obj([openai |-> ConfigKeys.openai]) } }
    \cup { FileOf(dp, Obj(ConfigKeys), ac) :
             dp \in { Undefined, Name("claude"), Name("gemini"), Name("mistral") },
             ac \in { Undefined, Bool(TRUE) } }

CliEnvs ==
  { EnvKeys,
    [k \in DOMAIN EnvKeys |-> Undefined],
    [k \in DOMAIN EnvKeys |-> IF k = "GEMINI_API_KEY" THEN EnvKeys[k] ELSE Undefined] }

\* bin/aicommit.js loads ../lib/ai-providers, the thorough module
InitCli ==
  /\ variant = "thorough"
  /\ options \in OptionSets
  /\ file \in Files
  /\ env \in CliEnvs
  /\ diff = NoText
  /\ provider = ""
  /\ config = Unset
  /\ pc = "idle"
  /\ limit = Unset
  /\ truncatedDiff = NoText
  /\ apiKey = Unset
  /\ prompt = NoText
  /\ request = Unset
  /\ response = Unset
  /\ netCalls = 0
  /\ outcome = NoOutcome
  /\ console = <<>>
  /\ mainPc = "start"
  /\ exitStatus = -1
  /\ commits = <<>>
  /\ saves = 0
  /\ calls = 0

NextCli == Main \/ Dispatch

SpecCli == InitCli /\ [][NextCli]_vars

(***************************************************************************)
(* Vocabulary of the properties: stated on the characters of a text, with  *)
(* none of the program's own operations.                                   *)
(***************************************************************************)
\* p is a prefix of t
IsPrefix(p, t) ==
  \/ p = <<>>
  \/ /\ Len(p) <= Len(t)
     /\ \A i \in 1..(Len(p) - 1) : p[i] = t[i]
     /\ p[Len(p)].c = t[Len(p)].c
     /\ p[Len(p)].n <= t[Len(p)].n

RECURSIVE Drop(_, _)
\* t without its first k characters
Drop(t, k) ==
  IF k <= 0 \/ t = <<>> THEN t
  ELSE IF t[1].n <= k THEN Drop(Tail(t), k - t[1].n)
  ELSE << Run(t[1].c, t[1].n - k) >> \o Tail(t)

\* s is a suffix of t
IsSuffix(s, t) == Length(s) <= Length(t) /\ Drop(t, Length(t) - Length(s)) = s

\* t is head, then d, then closing, character for character
IsHeadDiffClosing(t, head, d, closing) ==
  /\ IsPrefix(head, t)
  /\ IsPrefix(d, Drop(t, Length(head)))
  /\ Drop(t, Length(head) + Length(d)) = closing

Blank(t) == \A i \in 1..Len(t) : t[i].c \in WhiteSpace

\* x has no white space at either end
Stripped(x) == x = <<>> \/ (x[1].c \notin WhiteSpace /\ x[Len(x)].c \notin WhiteSpace)

\* t with the white space at its two ends removed
Strip(t) ==
  LET r == CHOOSE r \in { <<i, j>> \in (1..(Len(t) + 1)) \X (0..Len(t)) : j >= i - 1 } :
             /\ Stripped(SubSeq(t, r[1], r[2]))
             /\ Blank(SubSeq(t, 1, r[1] - 1))
             /\ Blank(SubSeq(t, r[2] + 1, Len(t)))
  IN SubSeq(t, r[1], r[2])

\* a secret: a string that is not empty
IsSecret(v) == v.tag = "string" /\ v.text # <<>>

\* the secret the config mapping holds for backend b, if any
ConfigSecret(b) ==
  IF /\ "apiKeys" \in DOMAIN config.fields
     /\ config.fields.apiKeys.tag = "object"
     /\ KeyMap[b] \in DOMAIN config.fields.apiKeys.fields
  THEN config.fields.apiKeys.fields[KeyMap[b]]
  ELSE Undefined

\* the backend's environment variable
EnvSecret(b) ==
  CASE b = "claude" -> env.ANTHROPIC_API_KEY
    [] b = "openai" -> env.OPENAI_API_KEY
    [] b = "gemini" -> env.GEMINI_API_KEY

\* the character limit the specification gives each backend
SpecLimit(p) ==
  CASE p = "claude" -> 100000
    [] p = "openai" -> 80000
    [] p = "gemini" -> 25000
    [] OTHER -> 50000

\* the three failures of dispatch
MissingCredential(m) ==
  m \in { << Run(n, 1), Run(" API key not found", 1) >> : n \in {"Anthropic", "OpenAI", "Gemini"} }
UnknownBackend(m, p) == m = << Run("Unknown provider: ", 1), Run(p, 1) >>
BackendName == [claude |-> "Claude", openai |-> "OpenAI", gemini |-> "Gemini"]
BackendRequestFailed(m, b) ==
  IsPrefix(<< Run(BackendName[b], 1), Run(" API error: ", 1) >>, m)

\* the advisory is among the console lines
AdvisoryShown == \E i \in 1..Len(console) : console[i].kind = "advisory"

\* the call has reached a generateWith* function
PassedOn == pc \in { "claude", "openai", "gemini" }

C2_CredentialPrecedence ==
  (provider \in Backends /\ apiKey # Unset) =>
     /\ IsSecret(ConfigSecret(provider)) =>
          /\ request # Unset
          /\ request.backend = provider
          /\ request.apiKey = ConfigSecret(provider).text
     /\ (~IsSecret(ConfigSecret(provider)) /\ IsSecret(EnvSecret(provider))) =>
          /\ request # Unset
          /\ request.backend = provider
          /\ request.apiKey = EnvSecret(provider).text
     /\ (~IsSecret(ConfigSecret(provider)) /\ ~IsSecret(EnvSecret(provider))) =>
          /\ pc = "done"
          /\ outcome.kind = "raised"
          /\ MissingCredential(outcome.message)
          /\ netCalls = 0
          /\ request = Unset

C2_Witness ==
  /\ provider = "openai"
  /\ IsSecret(ConfigSecret("openai"))
  /\ IsSecret(EnvSecret("openai"))
  /\ request # Unset
  /\ request.apiKey = Lit("sk-openai-config")

(***************************************************************************)
(* C3  Unknown backend rejection.                                          *)
(* As claimed: a call with a provider outside {claude, openai, gemini}     *)
(* raises the unknown-backend error and has bounded nothing, printed no    *)
(* advisory, built no prompt and sent nothing.                             *)
(***************************************************************************)
C3_NoBoundingClaimed ==
  (pc = "done" /\ provider \notin Backends) =>
     /\ outcome.kind = "raised"
     /\ UnknownBackend(outcome.message, provider)
     /\ truncatedDiff = NoText
     /\ ~AdvisoryShown
     /\ prompt = NoText
     /\ netCalls = 0

(***************************************************************************)
(* C3, amended.  A call with a provider outside {claude, openai, gemini}   *)
(* raises the unknown-backend error and has built no prompt and sent       *)
(* nothing; the diff has been bounded before the provider is looked at,    *)
(* and for a provider with no entry in the limit table the advisory has    *)
(* been printed exactly when the diff is longer than 50000 characters.     *)
(***************************************************************************)
C3_UnknownBackendRejection ==
  (pc = "done" /\ provider \notin Backends) =>
     /\ outcome.kind = "raised"
     /\ UnknownBackend(outcome.message, provider)
     /\ prompt = NoText
     /\ request = Unset
     /\ apiKey = Unset
     /\ netCalls = 0
     /\ truncatedDiff # NoText
     /\ IsPrefix(truncatedDiff, diff)
     /\ (DiffLimitsAt(provider) = Undefined =>
           /\ Length(truncatedDiff) <= 50000
           /\ (AdvisoryShown <=> Length(diff) > 50000))

C3_Witness ==
  /\ pc = "done"
  /\ provider = "mistral"
  /\ outcome.kind = "raised"
  /\ Length(diff) = 50001
  /\ Length(truncatedDiff) = 50000
  /\ AdvisoryShown

\* the envelope of backend b around the inner value v
Envelope(b, v) ==
  CASE b = "claude" -> Resolved(ClaudeEnvelope(v))
    [] b = "openai" -> Resolved(OpenAIEnvelope(v))
    [] b = "gemini" -> Response(TRUE, Obj([candidates |-> GeminiCandidates(v)]))

(***************************************************************************)
(* C4  Response normalization.  When the request settles with the          *)
(* backend's success envelope around a text t, the call returns t with     *)
(* the white space at its two ends removed: the same message for the       *)
(* three backends, since it depends on t alone.                            *)
(***************************************************************************)
C4_ResponseNormalization ==
  \A t \in InnerTexts :
    (pc = "done" /\ provider \in Backends /\ response = Envelope(provider, Str(t))) =>
       outcome = Returned(Strip(t))

C4_Witness ==
  /\ pc = "done"
  /\ provider = "gemini"
  /\ response = Envelope("gemini", Str(<< Run("\n", 1), Run("a", 1), Run(" ", 1) >>))
  /\ outcome = Returned(<< Run("a", 1) >>)

\* the error.message of a Gemini body, when the body is a JSON object that
\* carries one as a string
HasErrorMessage(body) ==
  /\ body.tag = "object"
  /\ "error" \in DOMAIN body.fields
  /\ body.fields.error.tag = "object"
  /\ "message" \in DOMAIN body.fields.error.fields
  /\ body.fields.error.fields.message.tag = "string"

(***************************************************************************)
(* C5  HTTP-status-aware backend.  For gemini, a response that is not ok   *)
(* and whose JSON body carries error.message makes the call fail with an   *)
(* error that names the backend and ends with that message; nothing is     *)
(* returned, also when the body holds candidates.                          *)
(***************************************************************************)
C5_StatusAware ==
  (/\ pc = "done"
   /\ provider = "gemini"
   /\ response # Unset
   /\ response.kind = "resolved"
   /\ ~response.ok
   /\ HasErrorMessage(response.body)) =>
     /\ outcome.kind = "raised"
     /\ BackendRequestFailed(outcome.message, "gemini")
     /\ IsSuffix(response.body.fields.error.fields.message.text, outcome.message)

C5_Witness ==
  /\ pc = "done"
  /\ provider = "gemini"
  /\ response # Unset
  /\ response.kind = "resolved"
  /\ ~response.ok
  /\ HasErrorMessage(response.body)
  /\ "candidates" \in DOMAIN response.body.fields
  /\ outcome = Raised(<< Run("Gemini", 1), Run(" API error: ", 1), Run("API key not valid", 1) >>)

\* r is the success envelope of backend b around some text
WellFormed(r, b) ==
  /\ r # Unset
  /\ r.kind = "resolved"
  /\ \E v \in InnerValues \cup { Str(Lit("feat: x")) } :
       /\ IsString(v)
       /\ CASE b = "claude" -> r = Resolved(ClaudeEnvelope(v))
            [] b = "openai" -> r = Resolved(OpenAIEnvelope(v))
            [] b = "gemini" ->
                 /\ r.ok
                 /\ r.body.tag = "object"
                 /\ "candidates" \in DOMAIN r.body.fields
                 /\ r.body.fields.candidates = GeminiCandidates(v)
            [] OTHER -> FALSE

\* t is a text: runs of one character or more
IsText(t) == \A i \in 1..Len(t) : t[i].n >= 1

(***************************************************************************)
(* C6  No partial result.  A call has no outcome until it ends, and then   *)
(* it has returned a text without white space at its ends, which happens   *)
(* only for a well-formed success envelope, or it has raised the           *)
(* missing-credential, the unknown-backend or the backend-request-failed   *)
(* error.  After a transport error, a non-2xx status or a malformed        *)
(* envelope it has raised backend-request-failed: the backend's name, then *)
(* the underlying message.                                                 *)
(***************************************************************************)
C6_NoPartialResult ==
  /\ pc # "done" => outcome = NoOutcome
  /\ pc = "done" =>
       /\ outcome.kind \in {"returned", "raised"}
       /\ outcome.kind = "returned" =>
            /\ provider \in Backends
            /\ WellFormed(response, provider)
            /\ IsText(outcome.value)
            /\ Stripped(outcome.value)
       /\ outcome.kind = "raised" =>
            \/ MissingCredential(outcome.message)
            \/ UnknownBackend(outcome.message, provider)
            \/ provider \in Backends /\ BackendRequestFailed(outcome.message, provider)
       /\ (response # Unset /\ ~WellFormed(response, provider)) =>
            /\ outcome.kind = "raised"
            /\ BackendRequestFailed(outcome.message, provider)
            /\ Length(outcome.message) > 2
            /\ (response.kind = "rejected" /\ response.message.tag = "string") =>
                 IsSuffix(response.message.text, outcome.message)

C6_Witness ==
  /\ pc = "done"
  /\ provider = "claude"
  /\ response = Resolved(Obj([content |-> Arr(<<>>)]))
  /\ outcome = Raised(<< Run("Claude", 1), Run(" API error: ", 1), Run("TypeError", 1) >>)

\* a secret can be resolved for the provider
Resolvable ==
  /\ provider \in Backends
  /\ IsSecret(ConfigSecret(provider)) \/ IsSecret(EnvSecret(provider))

(***************************************************************************)
(* C7  Single request, no retry.  A call never hands more than one request *)
(* to the network layer; once the backend function has run, it has handed  *)
(* over exactly one if the provider is known and a secret is resolvable,   *)
(* and none otherwise; the request's prompt holds the bounded diff         *)
(* verbatim; a failure ends the call with that one request made.           *)
(***************************************************************************)
C7_SingleRequest ==
  /\ netCalls <= 1
  /\ pc \in {"claude:await", "openai:await", "gemini:await", "done"} =>
       (netCalls = 1 <=> Resolvable)
  /\ netCalls = 1 =>
       /\ request # Unset
       /\ request.backend = provider
       /\ IsPrefix(truncatedDiff, Drop(request.prompt, Length(TemplateHead(variant))))
  /\ outcome.kind = "raised" => pc = "done"

C7_Witness ==
  /\ pc = "done"
  /\ netCalls = 1
  /\ response # Unset
  /\ response.kind = "rejected"
  /\ outcome.kind = "raised"
  /\ Length(truncatedDiff) = 80000

(***************************************************************************)
(* C10  Template determinism.  In either variant the prompt is the         *)
(* variant's fixed head (it ends with the diff section header), then the   *)
(* diff it was given, character for character, then the variant's fixed    *)
(* closing instruction, for the empty diff too; so the prompt is           *)
(* determined by the variant and the diff.                                 *)
(***************************************************************************)
C10_TemplateDeterminism ==
  prompt # NoText =>
    /\ IsHeadDiffClosing(prompt, TemplateHead(variant), truncatedDiff,
                         TemplateClosing(variant))
    /\ Length(prompt) =
         Length(TemplateHead(variant)) + Length(truncatedDiff)
           + Length(TemplateClosing(variant))
    /\ IsSuffix(<< Run("## GIT DIFF TO ANALYZE:", 1), Run("\n", 2) >>, TemplateHead(variant))
    /\ request.prompt = prompt

C10_Witness ==
  /\ prompt # NoText
  /\ variant = "concise"
  /\ truncatedDiff = <<>>
  /\ prompt = SubSeq(ConciseHead, 1, Len(ConciseHead) - 1)
                \o << Run("\n", 4) >> \o Tail(ConciseClosing)

\* the last line written to the console
LastLine == console[Len(console)]

(***************************************************************************)
(* C8  CLI failure policy.  When the call made by a generation run raises, *)
(* the next step of the run is its end with status 1; the run has then     *)
(* printed the error's message, which names the backend and carries the    *)
(* cause, it has called generateCommitMessage once and made at most one    *)
(* request, and it has run no commit command.                              *)
(***************************************************************************)
C8_CliFailurePolicy ==
  /\ []((calls >= 1 /\ outcome.kind = "raised") =>
          /\ mainPc \in {"await", "exited"}
          /\ calls = 1
          /\ netCalls <= 1
          /\ commits = <<>>
          /\ mainPc = "exited" =>
               /\ exitStatus = 1
               /\ LastLine = [kind |-> "error", message |-> outcome.message]
               /\ BackendRequestFailed(outcome.message, provider)
               /\ Length(outcome.message) > 2)
  /\ [][(mainPc = "await" /\ pc = "done" /\ outcome.kind = "raised") =>
          (mainPc' = "exited" /\ exitStatus' = 1 /\ commits' = <<>> /\ calls' = 1)]_vars

C8_Witness ==
  /\ mainPc = "exited"
  /\ provider = "openai"
  /\ calls = 1
  /\ outcome.kind = "raised"
  /\ exitStatus = 1
  /\ response = Resolved(Obj([choices |-> Arr(<<>>)]))

\* the run generates a message: none of --setup, --config, --set-provider
GenerationRun == ~options.setup /\ ~options.config /\ ~Truthy(options.setProvider)

\* the run is `--set-provider X`
SetProviderRun == ~options.setup /\ ~options.config /\ Truthy(options.setProvider)

C11_AdvisoryExact ==
  pc # "bound" =>
    /\ (AdvisoryShown <=> truncatedDiff # diff)
    /\ (AdvisoryShown <=> Length(diff) > SpecLimit(provider))
    /\ (pc = "switch" => outcome = NoOutcome)
    /\ Length(truncatedDiff) <= SpecLimit(provider)
    /\ (request # Unset =>
          IsHeadDiffClosing(request.prompt, TemplateHead(variant), truncatedDiff,
                            TemplateClosing(variant)))

\* the missing-credential error that names backend b
MissingCredentialOf(b) ==
  CASE b = "claude" -> << Run("Anthropic", 1), Run(" API key not found", 1) >>
    [] b = "openai" -> << Run("OpenAI", 1), Run(" API key not found", 1) >>
    [] b = "gemini" -> << Run("Gemini", 1), Run(" API key not found", 1) >>

\* the call has ended with the missing-credential error
EndedWithoutCredential ==
  pc = "done" /\ outcome.kind = "raised" /\ MissingCredential(outcome.message)

(***************************************************************************)
(* C12  Dispatch step order.                                               *)
(* As claimed: the secret is resolved before the diff is bounded, the diff *)
(* is bounded before the prompt is built, the prompt is built before the   *)
(* request goes out; a call that ended with the missing-credential error   *)
(* has bounded nothing, printed no advisory and sent nothing.              *)
(***************************************************************************)
C12_SecretFirstClaimed ==
  /\ (truncatedDiff # NoText => apiKey # Unset)
  /\ (prompt # NoText => truncatedDiff # NoText)
  /\ (request # Unset => prompt # NoText)
  /\ EndedWithoutCredential =>
       /\ truncatedDiff = NoText
       /\ ~AdvisoryShown
       /\ netCalls = 0

(***************************************************************************)
(* C12, amended.  The diff is bounded first, then the secret is resolved,  *)
(* then the prompt is built, then the request goes out.  With a known      *)
(* backend and no resolvable secret the call ends with the                 *)
(* missing-credential error naming the backend, with no prompt built and   *)
(* nothing sent; the diff has been bounded by then, and the advisory has   *)
(* been printed exactly when the diff is longer than the backend's limit.  *)
(***************************************************************************)
C12_StepOrder ==
  /\ (apiKey # Unset => truncatedDiff # NoText /\ limit # Unset)
  /\ (prompt # NoText => apiKey # Unset /\ IsSecret(apiKey))
  /\ (request # Unset => prompt # NoText /\ request.prompt = prompt)
  /\ (netCalls = 1 <=> request # Unset)
  /\ (provider \in Backends /\ pc = "done" /\ ~Resolvable) =>
       /\ outcome = Raised(MissingCredentialOf(provider))
       /\ apiKey # Unset
       /\ prompt = NoText
       /\ request = Unset
       /\ netCalls = 0
       /\ truncatedDiff # NoText
       /\ (AdvisoryShown <=> Length(diff) > SpecLimit(provider))
  /\ (EndedWithoutCredential => provider \in Backends /\ ~Resolvable)

C12_Witness ==
  /\ EndedWithoutCredential
  /\ provider = "gemini"
  /\ outcome = Raised(MissingCredentialOf("gemini"))
  /\ Length(diff) = 25001
  /\ Length(truncatedDiff) = 25000
  /\ AdvisoryShown

\* the gemini call has ended on a response that is not ok and whose body
\* is no JSON
NotOkUnparsable ==
  /\ pc = "done"
  /\ provider = "gemini"
  /\ response # Unset
  /\ response.kind = "resolved"
  /\ ~response.ok
  /\ response.body = NotJson

(***************************************************************************)
(* C13  Status before body.  For gemini, a response that is not ok and     *)
(* whose body cannot be parsed makes the call fail as a failed request,    *)
(* decided from the status: the error names the backend and carries the    *)
(* failed-request message, not the error of parsing the body.              *)
(***************************************************************************)
C13_StatusBeforeParse ==
  NotOkUnparsable =>
    /\ outcome.kind = "raised"
    /\ BackendRequestFailed(outcome.message, "gemini")
    /\ IsSuffix(Lit("Gemini API request failed"), outcome.message)
    /\ ~IsSuffix(Lit("SyntaxError"), outcome.message)

(***************************************************************************)
(* The twin module (concise template), read on its own: what a call of its *)
(* generateCommitMessage computes from its arguments, the environment and  *)
(* the reply of the network layer.                                         *)
(***************************************************************************)
part000_DIFF_LIMITS == [claude |-> 100000, openai |-> 80000, gemini |-> 25000]

\* const limit = DIFF_LIMITS[provider] || 50000
part000_limit(p) ==
  IF p \in DOMAIN part000_DIFF_LIMITS THEN NumV(part000_DIFF_LIMITS[p])
  ELSE IF p \in InheritedKeys THEN Fun
  ELSE NumV(50000)

\* const truncatedDiff = diff.substring(0, limit)
part000_truncatedDiff(d, p) == Substring0(d, EndIndex(part000_limit(p)))

\* the console after the warning block
part000_warning(d, p) ==
  IF part000_limit(p).tag = "number" /\ Length(d) > part000_limit(p).n
  THEN << [kind |-> "advisory",
           originalKB |-> (Length(d) * 10 + 512) \div 1024,
           truncatedKB |-> (part000_limit(p).n * 10 + 512) \div 1024,
           provider |-> p] >>
  ELSE <<>>

\* buildPrompt(diff)
part000_buildPrompt(d) == Concat(Concat(ConciseHead, d), ConciseClosing)

\* how a generateWith* function ends: { netCalls, request, outcome }
part000_ended(n, req, out) == [netCalls |-> n, request |-> req, outcome |-> out]

\* the catch of a generateWith* function
part000_caught(name, message) ==
  Raised(Concat(Lit(name), Concat(Lit(" API error: "), ToStr(message))))

\* the try block of a generateWith* function that ended with v
part000_tried(name, v) ==
  IF IsThrow(v) THEN part000_caught(name, Str(v.message)) ELSE Returned(v.text)

\* a reading of the reply that does not trim
part000_claudeTextUntrimmed(reply) ==
  LET t == Get(Get(Get(reply.value, "content"), "0"), "text")
  IN IF IsThrow(t) \/ IsString(t) THEN t ELSE Throw(TypeErrorMsg)

\* message.content[0].text.trim()
part000_claudeText(reply) ==
  CallTrim(Get(Get(Get(reply.value, "content"), "0"), "text"))

\* response.choices[0].message.content.trim()
part000_openaiText(reply) ==
  CallTrim(Get(Get(Get(Get(reply.value, "choices"), "0"), "message"), "content"))

\* data.candidates[0].content.parts[0].text.trim()
part000_geminiText(data) ==
  CallTrim(Get(Get(Get(Get(Get(Get(data, "candidates"), "0"), "content"),
                   "parts"), "0"), "text"))

\* generateWithClaude(diff, config)
part000_generateWithClaude(d, cfg, environment, reply) ==
  LET k == Or(OptGet(Get(cfg, "apiKeys"), "anthropic"), environment.ANTHROPIC_API_KEY)
      req == [backend |-> "claude", apiKey |-> ToStr(k),
              model |-> "claude-sonnet-4-20250514", max_tokens |-> 1024,
              temperature |-> "default", system |-> FALSE,
              prompt |-> part000_buildPrompt(d)]
  IN IF ~Truthy(k)
     THEN part000_ended(0, Unset,
                        Raised(Concat(Lit("Anthropic"), Lit(" API key not found"))))
     ELSE IF reply = Unset THEN part000_ended(1, req, NoOutcome)
     ELSE IF reply.kind = "rejected"
     THEN part000_ended(1, req, part000_caught("Claude", reply.message))
     ELSE part000_ended(1, req, part000_tried("Claude", part000_claudeText(reply)))

\* generateWithOpenAI(diff, config)
part000_generateWithOpenAI(d, cfg, environment, reply) ==
  LET k == Or(OptGet(Get(cfg, "apiKeys"), "openai"), environment.OPENAI_API_KEY)
      req == [backend |-> "openai", apiKey |-> ToStr(k),
              model |-> "gpt-4-turbo-preview", max_tokens |-> 1024,
              temperature |-> "0.3", system |-> TRUE,
              prompt |-> part000_buildPrompt(d)]
  IN IF ~Truthy(k)
     THEN part000_ended(0, Unset,
                        Raised(Concat(Lit("OpenAI"), Lit(" API key not found"))))
     ELSE IF reply = Unset THEN part000_ended(1, req, NoOutcome)
     ELSE IF reply.kind = "rejected"
     THEN part000_ended(1, req, part000_caught("OpenAI", reply.message))
     ELSE part000_ended(1, req, part000_tried("OpenAI", part000_openaiText(reply)))

\* generateWithGemini(diff, config)
part000_generateWithGemini(d, cfg, environment, reply) ==
  LET k == Or(OptGet(Get(cfg, "apiKeys"), "gemini"), environment.GEMINI_API_KEY)
      req == [backend |-> "gemini", apiKey |-> ToStr(k),
              model |-> "gemini-pro", max_tokens |-> 1024,
              temperature |-> "0.3", system |-> FALSE,
              prompt |-> part000_buildPrompt(d)]
      thrown == Or(OptGet(Get(reply.body, "error"), "message"),
                   Str(Lit("Gemini API request failed")))
  IN IF ~Truthy(k)
     THEN part000_ended(0, Unset,
                        Raised(Concat(Lit("Gemini"), Lit(" API key not found"))))
     ELSE IF reply = Unset THEN part000_ended(1, req, NoOutcome)
     ELSE IF reply.kind = "rejected"
     THEN part000_ended(1, req, part000_caught("Gemini", reply.message))
     ELSE IF reply.body = NotJson
     THEN part000_ended(1, req, part000_caught("Gemini", Str(Lit("SyntaxError"))))
     ELSE IF ~reply.ok
     THEN part000_ended(1, req,
            IF IsThrow(thrown) THEN part000_caught("Gemini", Str(thrown.message))
            ELSE part000_caught("Gemini", Str(ToStr(thrown))))
     ELSE part000_ended(1, req, part000_tried("Gemini", part000_geminiText(reply.body)))

\* generateCommitMessage(diff, provider, config):
\* { limit, console, netCalls, request, outcome }
part000_generateCommitMessage(d, p, cfg, environment, reply) ==
  LET t == part000_truncatedDiff(d, p)
      e == CASE p = "claude" -> part000_generateWithClaude(t, cfg, environment, reply)
             [] p = "openai" -> part000_generateWithOpenAI(t, cfg, environment, reply)
             [] p = "gemini" -> part000_generateWithGemini(t, cfg, environment, reply)
             [] OTHER -> part000_ended(0, Unset,
                           Raised(Concat(Lit("Unknown provider: "), Lit(p))))
  IN [limit |-> part000_limit(p), console |-> part000_warning(d, p),
      netCalls |-> e.netCalls, request |-> e.request, outcome |-> e.outcome]

\* the generation parameters of a request: everything but the prompt
Parameters(req) ==
  [k \in DOMAIN req \ {"prompt"} |-> req[k]]

(***************************************************************************)
(* C14  The two dispatch modules differ only in the template.  At every    *)
(* point of a call, the twin module called with the same diff, provider,   *)
(* config and environment, and given the same reply, has the same limit,   *)
(* has printed the same advisory lines, has made the same number of        *)
(* requests with the same parameters and the same bounded diff inside its  *)
(* own template, and, when the call has ended, has the same outcome.       *)
(***************************************************************************)
C14_TwinsAgree ==
  LET twin == part000_generateCommitMessage(diff, provider, config, env, response)
  IN /\ pc # "bound" =>
          /\ limit = twin.limit
          /\ console = twin.console
     /\ pc \in {"claude:await", "openai:await", "gemini:await", "done"} =>
          /\ netCalls = twin.netCalls
          /\ (request = Unset) = (twin.request = Unset)
          /\ request # Unset =>
               /\ Parameters(request) = Parameters(twin.request)
               /\ IsHeadDiffClosing(request.prompt, TemplateHead(variant),
                                    truncatedDiff, TemplateClosing(variant))
               /\ IsHeadDiffClosing(twin.request.prompt, ConciseHead,
                                    truncatedDiff, ConciseClosing)
     /\ pc = "done" => outcome = twin.outcome

C14_Witness ==
  /\ variant = "thorough"
  /\ pc = "done"
  /\ provider = "openai"
  /\ Length(diff) = 80001
  /\ AdvisoryShown
  /\ netCalls = 1
  /\ response = Envelope("openai", Str(<< Run(" ", 1), Run("a", 1), Run("\n", 1) >>))
  /\ outcome = Returned(<< Run("a", 1) >>)
  /\ request.prompt # part000_buildPrompt(truncatedDiff)

\* the reply is the backend's success envelope around a text of nothing
\* but whitespace
BlankReply ==
  /\ provider \in Backends
  /\ response # Unset
  /\ \E t \in InnerTexts : Blank(t) /\ response = Envelope(provider, Str(t))

\* the generated message has been shown on the console
MessageShown == \E i \in 1..Len(console) : console[i].kind = "message"

(***************************************************************************)
(* C15  An empty message is never committed.  When the inner text of the   *)
(* reply is empty or only whitespace, the call returns the empty string    *)
(* and raises nothing; the run then ends with status 1, the message is     *)
(* never shown and the user is never asked; no commit command of any run   *)
(* carries an empty message.                                               *)
(***************************************************************************)
C15_EmptyNeverCommitted ==
  /\ \A i \in 1..Len(commits) : commits[i].message # <<>>
  /\ (BlankReply /\ pc = "done") => outcome = Returned(<<>>)
  /\ (BlankReply /\ pc = "idle") =>
       /\ outcome = Returned(<<>>)
       /\ mainPc = "exited"
       /\ exitStatus = 1
       /\ ~MessageShown
       /\ commits = <<>>
       /\ LastLine = [kind |-> "generation failed"]

C15_Witness ==
  /\ mainPc = "exited"
  /\ exitStatus = 1
  /\ provider = "claude"
  /\ response = Envelope("claude", Str(<< Run(" ", 1), Run("\n", 1) >>))
  /\ outcome = Returned(<<>>)
  /\ options.editor
  /\ commits = <<>>

\* the run ended at one of the two checks of main
CheckFailed ==
  /\ mainPc = "exited"
  /\ console # <<>>
  /\ LastLine.kind \in { "unknown provider", "key not configured" }

(***************************************************************************)
(* C16  The checks of main agree with dispatch.  In a generation run,      *)
(* generateCommitMessage is called only with a provider among claude,      *)
(* openai, gemini and a resolvable secret (a non-empty config.apiKeys      *)
(* entry, else the environment variable); the check of main passes exactly *)
(* when one is resolvable, getApiKey finds one exactly then, and the key   *)
(* the backend function resolves is the one getApiKey gives; so the call   *)
(* never raises the unknown-backend or the missing-credential error; and   *)
(* when a check fails the run ends with status 1 with no diff read and no  *)
(* call made.                                                              *)
(***************************************************************************)
C16_PreValidation ==
  /\ calls >= 1 => (provider \in Backends /\ Resolvable)
  /\ (GenerationRun /\ mainPc # "start" /\ provider \in Backends) =>
       /\ Truthy(getApiKey(provider, config, env)) <=> Resolvable
       /\ (console[1].kind = "banner") <=> Resolvable
       /\ (console[1].kind = "key not configured") <=> ~Resolvable
       /\ apiKey # Unset => (IsSecret(apiKey) /\ apiKey = getApiKey(provider, config, env))
  /\ (GenerationRun /\ mainPc # "start" /\ provider \notin Backends) =>
       console[1].kind = "unknown provider"
  /\ outcome.kind = "raised" =>
       /\ ~MissingCredential(outcome.message)
       /\ ~UnknownBackend(outcome.message, provider)
  /\ CheckFailed =>
       /\ exitStatus = 1
       /\ diff = NoText
       /\ calls = 0
       /\ pc = "idle"
       /\ netCalls = 0

C16_Witness ==
  /\ GenerationRun
  /\ provider = "gemini"
  /\ ConfigSecret("gemini") = Str(Empty)
  /\ calls = 1
  /\ netCalls = 1
  /\ apiKey = EnvKeys.GEMINI_API_KEY
  /\ request.apiKey = Lit("gemini-env")

\* the settings file f holds a non-empty key under name k
StoredKey(f, k) ==
  /\ f.tag = "object"
  /\ "apiKeys" \in DOMAIN f.fields
  /\ f.fields.apiKeys.tag = "object"
  /\ k \in DOMAIN f.fields.apiKeys.fields
  /\ IsSecret(f.fields.apiKeys.fields[k])

(***************************************************************************)
(* C17  Setup never erases a stored key.  The run `--setup` ends in one    *)
(* step: either the settings file is written once and the run ends with    *)
(* status 0, or the write fails, the file is as it was and the run ends    *)
(* with status 1.  The written file holds exactly defaultProvider (one of  *)
(* claude, openai, gemini), autoCommit (a boolean) and apiKeys with the    *)
(* three entries anthropic, openai and gemini, each a string; and every    *)
(* key that was non-empty in the file before is non-empty after.           *)
(***************************************************************************)
C17_SetupKeepsKeys ==
  [][(mainPc = "start" /\ options.setup) =>
       /\ mainPc' = "exited"
       /\ \/ /\ file' = file
             /\ saves' = 0
             /\ exitStatus' = 1
          \/ /\ saves' = 1
             /\ exitStatus' = 0
             /\ file'.tag = "object"
             /\ DOMAIN file'.fields = {"defaultProvider", "apiKeys", "autoCommit"}
             /\ file'.fields.defaultProvider.tag = "string"
             /\ NameOf(file'.fields.defaultProvider) \in {"claude", "openai", "gemini"}
             /\ file'.fields.autoCommit.tag = "boolean"
             /\ file'.fields.apiKeys.tag = "object"
             /\ DOMAIN file'.fields.apiKeys.fields = {"anthropic", "openai", "gemini"}
             /\ \A k \in {"anthropic", "openai", "gemini"} :
                  /\ file'.fields.apiKeys.fields[k].tag = "string"
                  /\ StoredKey(file, k) => StoredKey(file', k)]_vars

C17_Witness ==
  /\ mainPc = "exited"
  /\ options.setup
  /\ saves = 1
  /\ exitStatus = 0
  /\ Get(file, "defaultProvider") = Name("gemini")
  /\ Get(file, "apiKeys") =
       Obj([anthropic |-> Str(Empty), openai |-> ConfigKeys.openai,
            gemini |-> Str(Lit("typed-key"))])

\* the console lines that follow the choices 'commit' and 'edit'
ChoseToCommit ==
  /\ console # <<>>
  /\ LastLine.kind \in { "committed", "commit failed", "commit cancelled" }

\* the console lines that follow the choices 'copy' and 'cancel'
ChoseNotToCommit ==
  /\ console # <<>>
  /\ LastLine.kind \in { "copied", "not copied", "cancelled" }

====
